---- MODULE Spec2Model ----
(***************************************************************************)
(* Model of node-backend/index.js: an Express service that stores batches  *)
(* of verification results in a MongoDB collection, lists them, and        *)
(* exports them as a spreadsheet through one fixed temporary file.         *)
(*                                                                         *)
(* Each request is a one-shot slot r \in Reqs.  A handler is cut into      *)
(* steps at its suspension points (await / callback); everything the code  *)
(* does synchronously between two suspension points is one action.         *)
(*                                                                         *)
(* JavaScript values are encoded as strings: a JS string is itself, and    *)
(* the non-string values are "#undefined", "#null", "#0", "#false".        *)
(***************************************************************************)
EXTENDS Integers, Sequences, FiniteSets, TLC

\* ---------------------------------------------------------------- bounds
NReq == 2          \* request slots (each serves one request)
MaxBatch == 2      \* longest posted array
MaxClock == 2      \* the clock stops ticking here

Reqs == 1..NReq

\* ------------------------------------------------------------- constants
NoIno == 0         \* "no such file" / "no descriptor"
NoUri == ""        \* process.env.MONGODB_URI undefined
SomeUri == "mongodb://host/verification"

VARIABLES
    mongoUri,      \* the configured connection string
    proc,          \* "init" | "connecting" | "listening" | "exited" | "crashed"
    exitCode,      \* -1 while running
    db,            \* "" while `db` is undefined, else the database name
    listenCalls,   \* how many times app.listen ran
    connectCalls,  \* how many times client.connect ran
    clock,
    collection,    \* verification_results, in store order
    dirExists,     \* ../uploads exists
    path,          \* inode that verification_results.xlsx names, or NoIno
    ino,           \* inode -> file content
    pc, kind, body, tStart, tResp,
    formatted,     \* formattedResults of a store request
    written,       \* _ids the store wrote on behalf of a request
    fetched,       \* `results` of a list / export request
    wfd, rfd,      \* inode a request writes to / streams from
    mixedW,        \* writers whose bytes interleave with another writer's
    responses,     \* responses sent on `res`, in order
    listed,        \* JSON payload of a 200 listing
    streamed,      \* file content sent by res.download
    overlapped,    \* export requests that were in flight together with another
    fsOps          \* filesystem calls a request has made

vars == <<mongoUri, proc, exitCode, db, listenCalls, connectCalls, clock,
          collection, dirExists, path, ino, pc, kind, body, tStart, tResp,
          formatted, written, fetched, wfd, rfd, mixedW, responses, listed,
          streamed, overlapped, fsOps>>

procVars == <<mongoUri, proc, exitCode, db, listenCalls, connectCalls>>
fsVars == <<dirExists, path, ino, wfd, rfd, mixedW>>

\* ------------------------------------------------------------ JS values
Falsy == {"#undefined", "#null", "#0", "#false", ""}

\* a || b
Or(a, b) == IF a \in Falsy THEN b ELSE a

Obj(n, u, a, f, d) ==
    [type |-> "object", isNull |-> FALSE,
     props |-> [name |-> n, uid |-> u, address |-> a,
                final_remark |-> f, document_type |-> d]]

NoProps == [name |-> "#undefined", uid |-> "#undefined", address |-> "#undefined",
            final_remark |-> "#undefined", document_type |-> "#undefined"]

\* an object with a present, an empty, a falsy non-string and an omitted field
PartialObj == Obj("A", "", "#0", "#undefined", "passport")
NullElem == [type |-> "object", isNull |-> TRUE, props |-> NoProps]
NumElem == [type |-> "number", isNull |-> FALSE, props |-> NoProps]

Elements == {PartialObj, NullElem, NumElem}

SeqsUpTo(S, n) == UNION {[1..k -> S] : k \in 0..n}

\* request bodies after express.json(): an array, or something else
NonArrayBody == [isArray |-> FALSE, items |-> <<>>]
Bodies == {NonArrayBody} \cup {[isArray |-> TRUE, items |-> s] : s \in SeqsUpTo(Elements, MaxBatch)}

\* ------------------------------------------------------------- responses
NoCount == -1
Resp(status, error, details, count) ==
    [status |-> status, error |-> error, details |-> details, insertedCount |-> count]

IsTerminal(p) == p \in {"Done", "Error"}
InFlight(r) == pc[r] \notin {"Idle", "Done", "Error"}

\* ---------------------------------------------------------------- startup
\* new URL(mongoUri).pathname.replace('/', '') || 'verification_db'
DbName(uri) == IF uri = SomeUri THEN "verification" ELSE "verification_db"

\* connectToMongo's try/catch: where the process is after the attempt
AfterConnect_NoExit(ok) == "listening"
AfterConnect(ok) == IF ok THEN "listening" ELSE "exited"

Init ==
    /\ mongoUri \in {NoUri, SomeUri}
    /\ proc = "init"
    /\ exitCode = -1
    /\ db = ""
    /\ listenCalls = 0
    /\ connectCalls = 0
    /\ clock = 0
    /\ collection \in {<<>>,
                       <<[id |-> 1, name |-> "S", uid |-> "9", address |-> "",
                          final_remark |-> "", document_type |-> "", timestamp |-> 0]>>}
    /\ dirExists = FALSE
    /\ path = NoIno
    /\ ino = [i \in Reqs |-> [kind |-> "empty", writer |-> 0, header |-> <<>>, rows |-> <<>>]]
    /\ pc = [r \in Reqs |-> "Idle"]
    /\ kind = [r \in Reqs |-> "none"]
    /\ body = [r \in Reqs |-> NonArrayBody]
    /\ tStart = [r \in Reqs |-> 0]
    /\ tResp = [r \in Reqs |-> 0]
    /\ formatted = [r \in Reqs |-> <<>>]
    /\ written = [r \in Reqs |-> <<>>]
    /\ fetched = [r \in Reqs |-> <<>>]
    /\ wfd = [r \in Reqs |-> NoIno]
    /\ rfd = [r \in Reqs |-> NoIno]
    /\ mixedW = {}
    /\ responses = [r \in Reqs |-> <<>>]
    /\ listed = [r \in Reqs |-> <<>>]
    /\ streamed = [r \in Reqs |-> [kind |-> "none", writer |-> 0, header |-> <<>>, rows |-> <<>>]]
    /\ overlapped = {}
    /\ fsOps = [r \in Reqs |-> {}]

reqVars == <<pc, kind, body, tStart, tResp, formatted, written, fetched,
             responses, listed, streamed, overlapped, fsOps>>

\* startServer -> connectToMongo up to `await client.connect()`
StartServer ==
    /\ proc = "init"
    /\ IF mongoUri = NoUri
       THEN /\ proc' = "exited"
            /\ exitCode' = 1
            /\ UNCHANGED connectCalls
       ELSE /\ proc' = "connecting"
            /\ connectCalls' = connectCalls + 1
            /\ UNCHANGED exitCode
    /\ UNCHANGED <<mongoUri, db, listenCalls, clock, collection, fsVars, reqVars>>

\* client.connect() settles; on success db is set and startServer goes on
\* to app.listen, on failure the catch block exits the process
ConnectSettles(ok) ==
    /\ proc = "connecting"
    /\ proc' = AfterConnect(ok)
    /\ db' = IF ok THEN DbName(mongoUri) ELSE db
    /\ exitCode' = IF proc' = "exited" THEN 1 ELSE exitCode
    /\ listenCalls' = IF proc' = "listening" THEN listenCalls + 1 ELSE listenCalls
    /\ UNCHANGED <<mongoUri, connectCalls, clock, collection, fsVars, reqVars>>

ConnectOk == ConnectSettles(TRUE)
ConnectFail == ConnectSettles(FALSE)

Tick ==
    /\ proc = "listening"
    /\ clock < MaxClock
    /\ clock' = clock + 1
    /\ UNCHANGED <<procVars, collection, fsVars, reqVars>>

\* ---------------------------------------------------------------- requests
\* A request reaches the listening server; Express dispatches by route.
\* Slots are taken in order.
Arrive(r, k) ==
    /\ proc = "listening"
    /\ pc[r] = "Idle"
    /\ \A q \in Reqs : q < r => pc[q] # "Idle"
    /\ pc' = [pc EXCEPT ![r] = "Received"]
    /\ kind' = [kind EXCEPT ![r] = k]
    /\ tStart' = [tStart EXCEPT ![r] = clock]
    /\ overlapped' =
         IF k = "export" /\ \E q \in Reqs : q # r /\ kind[q] = "export" /\ InFlight(q)
         THEN overlapped \cup {r} \cup {q \in Reqs : kind[q] = "export" /\ InFlight(q)}
         ELSE overlapped
    /\ UNCHANGED <<procVars, clock, collection, fsVars, body, tResp, formatted,
                   written, fetched, responses, listed, streamed, fsOps>>

\* res.status(s).json(b) as the only and final act of a handler
Reply(r, resp, next) ==
    /\ responses' = [responses EXCEPT ![r] = Append(@, resp)]
    /\ tResp' = [tResp EXCEPT ![r] = clock]
    /\ pc' = [pc EXCEPT ![r] = next]

\* ------------------------------------------------------ POST /store-results
\* !Array.isArray(results) || results.length === 0, negated
IsValidBody_NoEmptyCheck(b) == b.isArray
IsValidBody(b) == b.isArray /\ Len(b.items) # 0

\* typeof result !== 'object' || result === null, negated
IsObject_NoNullCheck(result) == result.type = "object"
IsObject(result) == result.type = "object" /\ ~result.isNull

\* the object literal returned by the map callback
FormatResult_NoDefault(result, now) ==
    [name |-> result.props["name"], uid |-> result.props["uid"],
     address |-> result.props["address"],
     final_remark |-> result.props["final_remark"],
     document_type |-> result.props["document_type"], timestamp |-> now]
FormatResult(result, now) ==
    [name |-> Or(result.props["name"], ""),
     uid |-> Or(result.props["uid"], ""),
     address |-> Or(result.props["address"], ""),
     final_remark |-> Or(result.props["final_remark"], ""),
     document_type |-> Or(result.props["document_type"], ""),
     timestamp |-> now]

\* results.map(...) throws at the first element that is not an object
MapThrows(items) == \E i \in 1..Len(items) : ~IsObject(items[i])
FormatAll(items, now) == [i \in 1..Len(items) |-> FormatResult(items[i], now)]

\* the documents the store holds after writing the first k of docs;
\* every document gets a fresh _id
WithIds(coll, docs, k) ==
    [i \in 1..k |-> [id |-> Len(coll) + i, name |-> docs[i].name, uid |-> docs[i].uid,
                     address |-> docs[i].address, final_remark |-> docs[i].final_remark,
                     document_type |-> docs[i].document_type,
                     timestamp |-> docs[i].timestamp]]
InsertInto_Replace(coll, docs, k) == WithIds(coll, docs, k)
InsertInto(coll, docs, k) == coll \o WithIds(coll, docs, k)

\* the handler from its start to `await collection.insertMany(...)`
StoreHandle(r) ==
    /\ proc = "listening"
    /\ pc[r] = "Received" /\ kind[r] = "store"
    /\ \E b \in Bodies :
         /\ body' = [body EXCEPT ![r] = b]
         /\ IF db = ""
            THEN /\ Reply(r, Resp(500, "Database not connected", "", NoCount), "Error")
                 /\ UNCHANGED formatted
            ELSE IF ~IsValidBody(b)
            THEN /\ Reply(r, Resp(400, "Invalid or empty results", "", NoCount), "Error")
                 /\ UNCHANGED formatted
            ELSE IF MapThrows(b.items)
            THEN /\ Reply(r, Resp(500, "Failed to store results", "Invalid result object",
                                  NoCount), "Error")
                 /\ UNCHANGED formatted
            ELSE /\ formatted' = [formatted EXCEPT ![r] = FormatAll(b.items, clock)]
                 /\ pc' = [pc EXCEPT ![r] = "Inserting"]
                 /\ UNCHANGED <<responses, tResp>>
    /\ UNCHANGED <<procVars, clock, collection, fsVars, kind, tStart, written,
                   fetched, listed, streamed, overlapped, fsOps>>

\* insertMany resolves: all documents written, insertedCount reported
InsertOk(r) ==
    /\ proc = "listening"
    /\ pc[r] = "Inserting"
    /\ LET n == Len(formatted[r]) IN
         /\ collection' = InsertInto(collection, formatted[r], n)
         /\ written' = [written EXCEPT ![r] = [i \in 1..n |-> Len(collection) + i]]
         /\ Reply(r, Resp(201, "", "", n), "Done")
    /\ UNCHANGED <<procVars, clock, fsVars, kind, body, tStart, formatted,
                   fetched, listed, streamed, overlapped, fsOps>>

\* insertMany rejects after the store wrote the first k documents (an
\* ordered bulk write stops at the first failing document and keeps the
\* earlier ones); the catch block answers 500
InsertFail(r) ==
    /\ proc = "listening"
    /\ pc[r] = "Inserting"
    /\ \E k \in 0..(Len(formatted[r]) - 1) :
         /\ collection' = InsertInto(collection, formatted[r], k)
         /\ written' = [written EXCEPT ![r] = [i \in 1..k |-> Len(collection) + i]]
    /\ Reply(r, Resp(500, "Failed to store results", "store error", NoCount), "Error")
    /\ UNCHANGED <<procVars, clock, fsVars, kind, body, tStart, formatted,
                   fetched, listed, streamed, overlapped, fsOps>>

\* --------------------------------------------------------- GET /get-results
\* the handler up to `await collection.find({}).toArray()`
ListHandle(r) ==
    /\ proc = "listening"
    /\ pc[r] = "Received" /\ kind[r] = "list"
    /\ IF db = ""
       THEN Reply(r, Resp(500, "Database not connected", "", NoCount), "Error")
       ELSE /\ pc' = [pc EXCEPT ![r] = "Finding"]
            /\ UNCHANGED <<responses, tResp>>
    /\ UNCHANGED <<procVars, clock, collection, fsVars, kind, body, tStart, formatted,
                   written, fetched, listed, streamed, overlapped, fsOps>>

FindOk(r) ==
    /\ proc = "listening"
    /\ pc[r] = "Finding"
    /\ fetched' = [fetched EXCEPT ![r] = collection]
    /\ listed' = [listed EXCEPT ![r] = collection]
    /\ Reply(r, Resp(200, "", "", NoCount), "Done")
    /\ UNCHANGED <<procVars, clock, collection, fsVars, kind, body, tStart, formatted,
                   written, streamed, overlapped, fsOps>>

FindFail(r) ==
    /\ proc = "listening"
    /\ pc[r] = "Finding"
    /\ Reply(r, Resp(500, "Failed to retrieve results", "store error", NoCount), "Error")
    /\ UNCHANGED <<procVars, clock, collection, fsVars, kind, body, tStart, formatted,
                   written, fetched, listed, streamed, overlapped, fsOps>>

\* ---------------------------------------------------- GET /download-results
EmptyFile == [kind |-> "empty", writer |-> 0, header |-> <<>>, rows |-> <<>>]
CorruptFile == [kind |-> "corrupt", writer |-> 0, header |-> <<>>, rows |-> <<>>]

\* !results || results.length === 0
NoResults_Never(results) == FALSE
NoResults(results) == Len(results) = 0

\* worksheet.columns
Columns_Swapped ==
    << [header |-> "UID", key |-> "uid"],
       [header |-> "Name", key |-> "name"],
       [header |-> "Address", key |-> "address"],
       [header |-> "Final Remark", key |-> "final_remark"],
       [header |-> "Document Type", key |-> "document_type"],
       [header |-> "Timestamp", key |-> "timestamp"] >>
Columns ==
    << [header |-> "Name", key |-> "name"],
       [header |-> "UID", key |-> "uid"],
       [header |-> "Address", key |-> "address"],
       [header |-> "Final Remark", key |-> "final_remark"],
       [header |-> "Document Type", key |-> "document_type"],
       [header |-> "Timestamp", key |-> "timestamp"] >>

\* the header row exceljs derives from the columns, and the row addRows
\* builds from one record: the record's value under each column key
HeaderRow == [i \in 1..Len(Columns) |-> Columns[i].header]
RowOf(rec) == [i \in 1..Len(Columns) |-> rec[Columns[i].key]]

\* the workbook request r renders from its `results`
Workbook(r, results) ==
    [kind |-> "xlsx", writer |-> r, header |-> HeaderRow,
     rows |-> [i \in 1..Len(results) |-> RowOf(results[i])]]

\* the file res.download is pointed at, given what filePath names: the
\* same filePath that writeFile was given
DownloadPath_Elsewhere(p) == NoIno
DownloadPath(p) == p

\* the handler up to `await collection.find({}).toArray()`
ExportHandle(r) ==
    /\ proc = "listening"
    /\ pc[r] = "Received" /\ kind[r] = "export"
    /\ IF db = ""
       THEN Reply(r, Resp(500, "Database not connected", "", NoCount), "Error")
       ELSE /\ pc' = [pc EXCEPT ![r] = "Fetching"]
            /\ UNCHANGED <<responses, tResp>>
    /\ UNCHANGED <<procVars, clock, collection, fsVars, kind, body, tStart, formatted,
                   written, fetched, listed, streamed, overlapped, fsOps>>

\* find resolves; an empty result is answered 404
FetchOk(r) ==
    /\ proc = "listening"
    /\ pc[r] = "Fetching"
    /\ fetched' = [fetched EXCEPT ![r] = collection]
    /\ IF NoResults(collection)
       THEN Reply(r, Resp(404, "No results found to export", "", NoCount), "Error")
       ELSE /\ pc' = [pc EXCEPT ![r] = "Rendering"]
            /\ UNCHANGED <<responses, tResp>>
    /\ UNCHANGED <<procVars, clock, collection, fsVars, kind, body, tStart, formatted,
                   written, listed, streamed, overlapped, fsOps>>

FetchFail(r) ==
    /\ proc = "listening"
    /\ pc[r] = "Fetching"
    /\ Reply(r, Resp(500, "Failed to generate or download file", "store error", NoCount),
             "Error")
    /\ UNCHANGED <<procVars, clock, collection, fsVars, kind, body, tStart, formatted,
                   written, fetched, listed, streamed, overlapped, fsOps>>

\* workbook built, upload directory created if absent, writeFile called
Render(r) ==
    /\ proc = "listening"
    /\ pc[r] = "Rendering"
    /\ dirExists' = TRUE
    /\ fsOps' = [fsOps EXCEPT ![r] = IF dirExists THEN @ ELSE @ \cup {"mkdir"}]
    /\ pc' = [pc EXCEPT ![r] = "WritingFile"]
    /\ UNCHANGED <<procVars, clock, collection, path, ino, wfd, rfd, mixedW, kind, body,
                   tStart, tResp, formatted, written, fetched, responses, listed,
                   streamed, overlapped>>

\* mkdirSync throws (the directory is absent and cannot be created)
RenderFail(r) ==
    /\ proc = "listening"
    /\ pc[r] = "Rendering"
    /\ ~dirExists
    /\ Reply(r, Resp(500, "Failed to generate or download file", "mkdir error", NoCount),
             "Error")
    /\ UNCHANGED <<procVars, clock, collection, fsVars, kind, body, tStart, formatted,
                   written, fetched, listed, streamed, overlapped, fsOps>>

Writers(i) == {w \in Reqs : pc[w] = "WritingFile" /\ wfd[w] = i}
Readers(i) == {q \in Reqs : pc[q] = "Streaming" /\ rfd[q] = i}

\* writeFile's stream opens the path with flag 'w': the file is created,
\* or the existing file is truncated under whoever has it open
WriteOpen(r) ==
    /\ proc = "listening"
    /\ pc[r] = "WritingFile" /\ wfd[r] = NoIno
    /\ LET i == IF path = NoIno THEN r ELSE path IN
         /\ path' = i
         /\ ino' = [ino EXCEPT ![i] = EmptyFile]
         /\ wfd' = [wfd EXCEPT ![r] = i]
         /\ mixedW' = IF Writers(i) # {} THEN mixedW \cup Writers(i) \cup {r} ELSE mixedW
         /\ streamed' = [q \in Reqs |-> IF q \in Readers(i) THEN CorruptFile ELSE streamed[q]]
    /\ fsOps' = [fsOps EXCEPT ![r] = @ \cup {"write"}]
    /\ UNCHANGED <<procVars, clock, collection, dirExists, rfd, pc, kind, body, tStart,
                   tResp, formatted, written, fetched, responses, listed, overlapped>>

\* writeFile resolves
WriteFinish(r) ==
    /\ proc = "listening"
    /\ pc[r] = "WritingFile" /\ wfd[r] # NoIno
    /\ LET i == wfd[r]
           wb == Workbook(r, fetched[r])
       IN \E c \in (IF r \in mixedW THEN {wb, CorruptFile} ELSE {wb}) :
            ino' = [ino EXCEPT ![i] = c]
    /\ mixedW' = mixedW \ {r}
    /\ pc' = [pc EXCEPT ![r] = "Streaming"]
    /\ UNCHANGED <<procVars, clock, collection, dirExists, path, wfd, rfd, kind, body,
                   tStart, tResp, formatted, written, fetched, responses, listed,
                   streamed, overlapped, fsOps>>

\* writeFile rejects (open or write error); the catch block answers 500
WriteFail(r) ==
    /\ proc = "listening"
    /\ pc[r] = "WritingFile"
    /\ mixedW' = mixedW \ {r}
    /\ Reply(r, Resp(500, "Failed to generate or download file", "write error", NoCount),
             "Error")
    /\ UNCHANGED <<procVars, clock, collection, dirExists, path, ino, wfd, rfd, kind,
                   body, tStart, formatted, written, fetched, listed, streamed,
                   overlapped, fsOps>>

\* res.download stats the path: a missing file reaches the callback with
\* nothing sent yet, so its 500 goes out; otherwise the 200 headers go out
\* and the file is piped
StreamOpen(r) ==
    /\ proc = "listening"
    /\ pc[r] = "Streaming" /\ rfd[r] = NoIno
    /\ IF DownloadPath(path) = NoIno
       THEN /\ Reply(r, Resp(500, "Failed to download file", "", NoCount), "Error")
            /\ UNCHANGED <<rfd, streamed>>
       ELSE /\ rfd' = [rfd EXCEPT ![r] = DownloadPath(path)]
            /\ streamed' = [streamed EXCEPT ![r] = ino[DownloadPath(path)]]
            /\ responses' = [responses EXCEPT ![r] = Append(@, Resp(200, "", "", NoCount))]
            /\ tResp' = [tResp EXCEPT ![r] = clock]
            /\ UNCHANGED pc
    /\ UNCHANGED <<procVars, clock, collection, dirExists, path, ino, wfd, mixedW, kind,
                   body, tStart, formatted, written, fetched, listed, overlapped, fsOps>>

\* the transfer completes: the callback runs without err and calls fs.unlink
StreamEnd(r) ==
    /\ proc = "listening"
    /\ pc[r] = "Streaming" /\ rfd[r] # NoIno
    /\ pc' = [pc EXCEPT ![r] = "Cleanup"]
    /\ UNCHANGED <<procVars, clock, collection, fsVars, kind, body, tStart, tResp,
                   formatted, written, fetched, responses, listed, streamed, overlapped, fsOps>>

\* the transfer fails after the headers went out (client abort, read
\* error): the callback runs with err and calls res.status(500).json(...),
\* which throws ERR_HTTP_HEADERS_SENT; the callback runs outside the
\* handler's try block and no uncaughtException handler is installed
StreamAbort(r) ==
    /\ proc = "listening"
    /\ pc[r] = "Streaming" /\ rfd[r] # NoIno
    /\ pc' = [pc EXCEPT ![r] = "Error"]
    /\ proc' = "crashed"
    /\ exitCode' = 1
    /\ UNCHANGED <<mongoUri, db, listenCalls, connectCalls, clock, collection, fsVars,
                   kind, body, tStart, tResp, formatted, written, fetched, responses,
                   listed, streamed, overlapped, fsOps>>

\* fs.unlink succeeds
UnlinkOk(r) ==
    /\ proc = "listening"
    /\ pc[r] = "Cleanup"
    /\ path # NoIno
    /\ path' = NoIno
    /\ fsOps' = [fsOps EXCEPT ![r] = @ \cup {"unlink"}]
    /\ pc' = [pc EXCEPT ![r] = "Done"]
    /\ UNCHANGED <<procVars, clock, collection, dirExists, ino, wfd, rfd, mixedW, kind,
                   body, tStart, tResp, formatted, written, fetched, responses, listed,
                   streamed, overlapped>>

\* fs.unlink fails (file already gone, or not removable): logged only
UnlinkFail(r) ==
    /\ proc = "listening"
    /\ pc[r] = "Cleanup"
    /\ fsOps' = [fsOps EXCEPT ![r] = @ \cup {"unlink"}]
    /\ pc' = [pc EXCEPT ![r] = "Done"]
    /\ UNCHANGED <<procVars, clock, collection, fsVars, kind, body, tStart, tResp,
                   formatted, written, fetched, responses, listed, streamed, overlapped>>

\* ------------------------------------------------------------ specification
Kinds == {"store", "list", "export"}

\* every step a request of the export route can take
ExportStep(r) ==
    \/ ExportHandle(r) \/ FetchOk(r) \/ FetchFail(r) \/ Render(r) \/ RenderFail(r)
    \/ WriteOpen(r) \/ WriteFinish(r) \/ WriteFail(r)
    \/ StreamOpen(r) \/ StreamEnd(r) \/ StreamAbort(r)
    \/ UnlinkOk(r) \/ UnlinkFail(r)

\* the service with time standing still: timestamps play no part
Next ==
    \/ StartServer
    \/ ConnectOk
    \/ ConnectFail
    \/ \E r \in Reqs, k \in Kinds : Arrive(r, k)
    \/ \E r \in Reqs : StoreHandle(r)
    \/ \E r \in Reqs : InsertOk(r)
    \/ \E r \in Reqs : InsertFail(r)
    \/ \E r \in Reqs : ListHandle(r)
    \/ \E r \in Reqs : FindOk(r)
    \/ \E r \in Reqs : FindFail(r)
    \/ \E r \in Reqs : ExportHandle(r)
    \/ \E r \in Reqs : FetchOk(r)
    \/ \E r \in Reqs : FetchFail(r)
    \/ \E r \in Reqs : Render(r)
    \/ \E r \in Reqs : RenderFail(r)
    \/ \E r \in Reqs : WriteOpen(r)
    \/ \E r \in Reqs : WriteFinish(r)
    \/ \E r \in Reqs : WriteFail(r)
    \/ \E r \in Reqs : StreamOpen(r)
    \/ \E r \in Reqs : StreamEnd(r)
    \/ \E r \in Reqs : StreamAbort(r)
    \/ \E r \in Reqs : UnlinkOk(r)
    \/ \E r \in Reqs : UnlinkFail(r)

Spec == Init /\ [][Next]_vars

\* every pending I/O operation of an export request settles
FairSpec == Spec /\ \A r \in Reqs : WF_vars(ExportStep(r))

\* ingestion with the clock running: two ingestion requests, which may
\* overlap, and any amount of time between their steps
TimedReqs == {r \in Reqs : r <= 2}

NextTimed ==
    \/ StartServer
    \/ ConnectOk
    \/ ConnectFail
    \/ Tick
    \/ \E r \in TimedReqs : Arrive(r, "store")
    \/ \E r \in Reqs : StoreHandle(r)
    \/ \E r \in Reqs : InsertOk(r)
    \/ \E r \in Reqs : InsertFail(r)

SpecTimed == Init /\ [][NextTimed]_vars

\* ===================================================================== claims
FieldNames == {"name", "uid", "address", "final_remark", "document_type"}
FalsyValues == {"#undefined", "#null", "#0", "#false", ""}
IsObjectElement(e) == e.type = "object" /\ e.isNull = FALSE
SeedCount == Cardinality({i \in DOMAIN collection : collection[i].name = "S"})
StoreDone(r) == kind[r] = "store" /\ IsTerminal(pc[r])
InsertRejected(r) == responses[r] # <<>> /\ responses[r][1].details = "store error"

\* C1: a POST /store-results whose body is a non-empty array of objects, with
\* the store connected and the bulk insert succeeding, is answered 201 with
\* insertedCount = array length; the collection holds exactly one new record
\* per element, each field the submitted value or "" if omitted or falsy,
\* and a timestamp between the request's start and its response.
C1_StoreSuccess ==
    \A r \in Reqs :
        (/\ StoreDone(r)
         /\ body[r].isArray /\ Len(body[r].items) > 0
         /\ \A i \in 1..Len(body[r].items) : IsObjectElement(body[r].items[i])
         /\ ~InsertRejected(r))
        => LET items == body[r].items
               n == Len(items)
           IN /\ responses[r] = <<Resp(201, "", "", n)>>
              /\ Len(written[r]) = n
              /\ \A i, j \in 1..n : i # j => written[r][i] # written[r][j]
              /\ \A q \in Reqs \ {r} : \A i \in 1..n, j \in 1..Len(written[q]) :
                     written[r][i] # written[q][j]
              /\ \A i \in 1..n :
                     /\ written[r][i] \in 1..Len(collection)
                     /\ LET d == collection[written[r][i]] IN
                          /\ d.name # "S"
                          /\ \A f \in FieldNames :
                               d[f] = IF items[i].props[f] \in FalsyValues
                                      THEN "" ELSE items[i].props[f]
                          /\ tStart[r] <= d.timestamp
                          /\ d.timestamp <= tResp[r]

\* a successful two-element batch whose handler ran after the clock moved
C1_Witness ==
    \E r \in Reqs :
        /\ StoreDone(r) /\ pc[r] = "Done"
        /\ body[r].items = <<PartialObj, PartialObj>>
        /\ responses[r] = <<Resp(201, "", "", 2)>>
        /\ tStart[r] < collection[written[r][1]].timestamp
        /\ collection[written[r][1]].timestamp < tResp[r]
        /\ collection[written[r][2]].uid = ""

\* C2: an empty array or a non-array body is answered 400 and nothing is
\* inserted for it.
C2_InvalidBody ==
    \A r \in Reqs :
        (StoreDone(r) /\ (~body[r].isArray \/ Len(body[r].items) = 0))
        => /\ pc[r] = "Error"
           /\ Len(responses[r]) = 1 /\ responses[r][1].status = 400
           /\ written[r] = <<>>
           /\ \A i \in DOMAIN collection :
                  \/ collection[i].name = "S"
                  \/ \E q \in Reqs \ {r} : \E j \in 1..Len(written[q]) : written[q][j] = i

\* an empty array was posted after another request had stored a record
C2_Witness ==
    \E r \in Reqs :
        /\ StoreDone(r) /\ body[r].isArray /\ body[r].items = <<>>
        /\ responses[r][1].status = 400
        /\ \E q \in Reqs : q # r /\ Len(written[q]) > 0

\* C5: an array holding any non-object element is answered 500 with an error
\* body, and no element of the batch is inserted.
C5_NonObjectElement ==
    \A r \in Reqs :
        (/\ StoreDone(r) /\ body[r].isArray
         /\ \E i \in 1..Len(body[r].items) : ~IsObjectElement(body[r].items[i]))
        => /\ pc[r] = "Error"
           /\ Len(responses[r]) = 1
           /\ responses[r][1].status = 500
           /\ responses[r][1].error # ""
           /\ written[r] = <<>>

\* a valid object followed by null
C5_Witness ==
    \E r \in Reqs :
        /\ StoreDone(r) /\ body[r].items = <<PartialObj, NullElem>>
        /\ responses[r][1].status = 500
        /\ written[r] = <<>>

\* C8: no request is served before the store connection exists: without a
\* connection string, or when the one connection attempt fails, the process
\* exits non-zero without listening; listening starts only with db set.
C8_ConnectBeforeListen ==
    /\ connectCalls <= 1 /\ listenCalls <= 1
    /\ proc = "listening" => db # "" /\ mongoUri # NoUri
    /\ listenCalls = 1 => db # ""
    /\ \A r \in Reqs : pc[r] # "Idle" => listenCalls = 1 /\ db # ""
    /\ (mongoUri = NoUri /\ proc # "init")
         => proc = "exited" /\ exitCode = 1 /\ listenCalls = 0 /\ connectCalls = 0
    /\ (connectCalls = 1 /\ proc # "connecting" /\ db = "")
         => proc = "exited" /\ exitCode = 1 /\ listenCalls = 0
    /\ proc = "exited" => exitCode = 1 /\ listenCalls = 0 /\ \A r \in Reqs : pc[r] = "Idle"

\* the connection attempt failed
C8_Witness ==
    mongoUri # NoUri /\ connectCalls = 1 /\ proc = "exited" /\ exitCode = 1

\* ------------------------------------------------------------------ export
ExportReq(r) == kind[r] = "export"
FetchReturned(r) ==
    /\ ExportReq(r) /\ pc[r] \notin {"Idle", "Received", "Fetching"}
    /\ ~(responses[r] # <<>> /\ responses[r][1].details = "store error")
ExpectedHeader == <<"Name", "UID", "Address", "Final Remark", "Document Type", "Timestamp">>
ExpectedRow(rec) ==
    <<rec.name, rec.uid, rec.address, rec.final_remark, rec.document_type, rec.timestamp>>

\* C3: an export whose fetch returns no records is answered 404 and makes no
\* filesystem call: no mkdir, no write of the temporary file, no unlink.
C3_EmptyExport ==
    \A r \in Reqs :
        (FetchReturned(r) /\ fetched[r] = <<>>)
        => /\ pc[r] = "Error"
           /\ Len(responses[r]) = 1 /\ responses[r][1].status = 404
           /\ fsOps[r] = {}
           /\ wfd[r] = NoIno /\ rfd[r] = NoIno
           /\ streamed[r].kind = "none"

\* an empty collection was exported while the upload directory did not exist
C3_Witness ==
    \E r \in Reqs :
        /\ FetchReturned(r) /\ fetched[r] = <<>>
        /\ responses[r][1].status = 404
        /\ ~dirExists /\ path = NoIno

\* C4: an export that fetched n >= 1 records and never shared its time in
\* flight with another export streams, when its transfer completes, a
\* spreadsheet with exactly the six fixed headers and n data rows, one per
\* fetched record.
C4_ExportContent ==
    \A r \in Reqs :
        (ExportReq(r) /\ pc[r] \in {"Cleanup", "Done"} /\ r \notin overlapped)
        => /\ Len(fetched[r]) >= 1
           /\ responses[r] = <<Resp(200, "", "", NoCount)>>
           /\ streamed[r].kind = "xlsx"
           /\ streamed[r].header = ExpectedHeader
           /\ Len(streamed[r].rows) = Len(fetched[r])
           /\ \A i \in 1..Len(fetched[r]) : streamed[r].rows[i] = ExpectedRow(fetched[r][i])

\* a lone export of two records, the second stored by this service
C4_Witness ==
    \E r \in Reqs :
        /\ ExportReq(r) /\ pc[r] = "Done" /\ r \notin overlapped
        /\ Len(fetched[r]) = 2
        /\ Len(streamed[r].rows) = 2
        /\ streamed[r].rows[2][1] = "A"

\* C10: the outcomes of the shared temporary path: a request streams content
\* it did not write, or finds the file gone although it fetched records, and
\* this happens only to requests in flight together with another export.
ForeignStream(r) ==
    /\ ExportReq(r) /\ rfd[r] # NoIno
    /\ streamed[r].writer # r
FileGone(r) ==
    /\ ExportReq(r) /\ pc[r] = "Error" /\ Len(fetched[r]) >= 1
    /\ responses[r] = <<Resp(500, "Failed to download file", "", NoCount)>>
C10_SharedPathRace ==
    \A r \in Reqs :
        (ForeignStream(r) \/ FileGone(r))
        => /\ r \in overlapped
           /\ \E q \in Reqs \ {r} : ExportReq(q) /\ fsOps[q] \cap {"write", "unlink"} # {}

\* one request streamed the workbook the other rendered, and the other then
\* found the file deleted by the first one's cleanup
C10_Witness ==
    \E r, q \in Reqs :
        /\ r # q
        /\ rfd[r] # NoIno /\ streamed[r].kind = "xlsx" /\ streamed[r].writer = q
        /\ "unlink" \in fsOps[r]
        /\ FileGone(q)

\* ------------------------------------------------------------------ records
IsPrefix(a, b) == Len(a) <= Len(b) /\ \A i \in 1..Len(a) : b[i] = a[i]
Inserting(r) == kind[r] = "store" /\ pc[r] = "Inserting"
Appended(r, k) ==
    /\ Len(collection') = Len(collection) + k
    /\ IsPrefix(collection, collection')
    /\ \A i \in 1..k :
         LET d == collection'[Len(collection) + i] IN
           \A f \in FieldNames \cup {"timestamp"} : d[f] = formatted[r][i][f]
ListingComplete ==
    \A r \in Reqs :
        (kind[r] = "list" /\ pc[r] = "Finding" /\ pc'[r] = "Done")
        => /\ listed'[r] = collection
           /\ \A q \in Reqs : \A j \in 1..Len(written[q]) :
                  \E i \in 1..Len(listed'[r]) : listed'[r][i].id = written[q][j]

\* C6 as stated: stored records never change or disappear, and the collection
\* changes only by a successful ingestion, which adds one record per element.
C6_OnlySuccessfulIngestionAdds ==
    [][ /\ IsPrefix(collection, collection')
        /\ collection' # collection
             => \E r \in Reqs :
                  /\ Inserting(r) /\ pc'[r] = "Done"
                  /\ responses'[r] = <<Resp(201, "", "", Len(formatted[r]))>>
                  /\ Appended(r, Len(formatted[r]))
        /\ ListingComplete ]_vars

\* C6 amended: stored records never change or disappear, and the collection
\* changes only when an ingestion's bulk insert settles, which appends one
\* record per element of the batch if it succeeds (201) and per element of a
\* proper prefix of the batch if it fails (500); a listing returns every
\* record stored so far.
C6_AppendOnly ==
    [][ /\ IsPrefix(collection, collection')
        /\ collection' # collection
             => \E r \in Reqs :
                  /\ Inserting(r) /\ IsTerminal(pc'[r])
                  /\ \/ /\ pc'[r] = "Done"
                        /\ responses'[r] = <<Resp(201, "", "", Len(formatted[r]))>>
                        /\ Appended(r, Len(formatted[r]))
                     \/ /\ pc'[r] = "Error"
                        /\ Len(responses'[r]) = 1 /\ responses'[r][1].status = 500
                        /\ \E k \in 1..(Len(formatted[r]) - 1) : Appended(r, k)
        /\ \A r \in Reqs : (~Inserting(r) /\ pc'[r] # pc[r]) => collection' = collection
        /\ ListingComplete ]_vars

\* the same one-element batch was stored twice: two equal records, the
\* first still in place
C6_Witness ==
    \E r, q \in Reqs :
        /\ r # q
        /\ StoreDone(r) /\ StoreDone(q) /\ pc[r] = "Done" /\ pc[q] = "Done"
        /\ body[r] = body[q] /\ Len(written[r]) = 1 /\ Len(written[q]) = 1
        /\ written[r][1] < written[q][1]
        /\ \A f \in FieldNames :
             collection[written[r][1]][f] = collection[written[q][1]][f]

\* ------------------------------------------------------------------ failures
\* C7: every failure of a request is answered by exactly one response with a
\* JSON error body, and the process keeps running.
C7_FailuresAnswered ==
    /\ proc # "crashed"
    /\ \A r \in Reqs :
         pc[r] = "Error"
         => /\ Len(responses[r]) = 1
            /\ responses[r][1].status >= 400
            /\ responses[r][1].error # ""

\* -------------------------------------------------------- export life cycle
ExportOrder ==
    { <<"Received", "Fetching">>, <<"Fetching", "Rendering">>,
      <<"Rendering", "WritingFile">>, <<"WritingFile", "Streaming">>,
      <<"Streaming", "Cleanup">>, <<"Cleanup", "Done">> }
ToError == {<<p, "Error">> : p \in {"Received", "Fetching", "Rendering", "WritingFile",
                                    "Streaming", "Cleanup"}}

\* the states are passed in order, one at a time, or left for Error
C9_InOrder ==
    [][ \A r \in Reqs :
          (ExportReq(r) /\ pc'[r] # pc[r]) => <<pc[r], pc'[r]>> \in ExportOrder \cup ToError ]_vars

\* the temporary file is removed only by the Cleanup of a request whose own
\* transfer completed, and Cleanup ends in Done with the response untouched
C9_DeleteOnlyInCleanup ==
    [][ /\ (path # NoIno /\ path' = NoIno)
            => \E r \in Reqs :
                 /\ ExportReq(r) /\ pc[r] = "Cleanup" /\ pc'[r] = "Done"
                 /\ rfd[r] # NoIno
                 /\ responses[r] = <<Resp(200, "", "", NoCount)>>
        /\ \A r \in Reqs :
             (ExportReq(r) /\ pc[r] = "Cleanup")
             => pc'[r] \in {"Cleanup", "Done"} /\ responses'[r] = responses[r] ]_vars

\* every export request that started ends in Done or Error
C9_Terminates ==
    \A r \in Reqs : (ExportReq(r) /\ pc[r] = "Fetching") ~> (pc[r] \in {"Done", "Error"})

\* C9: each export request passes Fetching, Rendering, WritingFile,
\* Streaming, Cleanup, Done in order, or leaves for Error, and always ends in
\* Done or Error; the file is deleted only in Cleanup after the request's own
\* completed transfer, and a failed deletion still ends in Done.
C9_ExportLifeCycle == C9_InOrder /\ C9_DeleteOnlyInCleanup /\ C9_Terminates

====
